---- MODULE Spec2Model ----
(***************************************************************************)
(* Model of the two FastAPI webhook receivers of line-api:                 *)
(*   webhook_text_message_example.py  (command bot with per-user history)  *)
(*   simple_text_webhook_example.py   (echo bot)                           *)
(* and of LineWebhookHandler.handle_webhook, which both of them call.      *)
(*                                                                         *)
(* A text is a sequence of one-character strings.  A reply text is a       *)
(* sequence too: the literal pieces of an f-string are single elements     *)
(* (without their emoji, which are not ASCII), the interpolated values     *)
(* are spliced in between.                                                 *)
(***************************************************************************)
EXTENDS Naturals, Sequences, FiniteSets, TLC

VARIABLES user_messages, expected, last, handled, pure_text, pure_reply

vars == <<user_messages, expected, last, handled, pure_text, pure_reply>>

(***************************** bounds **************************************)
MaxRequests == 2
MaxHistEvents == 7
MaxLead == 2
MaxPayload == 3

(************************ Python str operations ****************************)
UpperCs == <<"A","B","C","D","E","F","G","H","I","J","K","L","M",
             "N","O","P","Q","R","S","T","U","V","W","X","Y","Z">>
LowerCs == <<"a","b","c","d","e","f","g","h","i","j","k","l","m",
             "n","o","p","q","r","s","t","u","v","w","x","y","z">>

lower_char(c) ==
    IF \E i \in 1..26 : UpperCs[i] = c
    THEN LowerCs[CHOOSE i \in 1..26 : UpperCs[i] = c]
    ELSE c

lower(s) == [i \in 1..Len(s) |-> lower_char(s[i])]

is_space(c) == c \in {" ", "\t", "\n"}

RECURSIVE lstrip(_)
lstrip(s) ==
    IF s # <<>> /\ is_space(Head(s)) THEN lstrip(Tail(s)) ELSE s

RECURSIVE rstrip(_)
rstrip(s) ==
    IF s # <<>> /\ is_space(s[Len(s)]) THEN rstrip(SubSeq(s, 1, Len(s) - 1)) ELSE s

strip(s) == rstrip(lstrip(s))

startswith(s, p) == Len(s) >= Len(p) /\ SubSeq(s, 1, Len(p)) = p

\* s[k:]
slice_from(s, k) == SubSeq(s, k + 1, Len(s))

\* s[-k:]
slice_last(s, k) == IF Len(s) <= k THEN s ELSE SubSeq(s, Len(s) - k + 1, Len(s))

\* s[::-1]
reversed(s) == [i \in 1..Len(s) |-> s[Len(s) + 1 - i]]

\* len(s.split()): the maximal runs of non-whitespace characters
word_count(s) ==
    Cardinality({i \in 1..Len(s) : ~is_space(s[i]) /\ (i = 1 \/ is_space(s[i - 1]))})

\* str(n) for n >= 0
RECURSIVE str_int(_)
str_int(n) ==
    LET digit == <<"0","1","2","3","4","5","6","7","8","9">>[(n % 10) + 1] IN
    IF n < 10 THEN <<digit>> ELSE str_int(n \div 10) \o <<digit>>

\* "\n".join(lines)
RECURSIVE join_lines(_)
join_lines(lines) ==
    IF lines = <<>> THEN <<>>
    ELSE IF Len(lines) = 1 THEN lines[1]
    ELSE lines[1] \o <<"\n">> \o join_lines(Tail(lines))

(************************* the command words *******************************)
T_hello == <<"h","e","l","l","o">>
T_hi == <<"h","i">>
T_hey == <<"h","e","y">>
T_good_morning == <<"g","o","o","d"," ","m","o","r","n","i","n","g">>
T_good_evening == <<"g","o","o","d"," ","e","v","e","n","i","n","g">>
T_bye == <<"b","y","e">>
T_goodbye == <<"g","o","o","d","b","y","e">>
T_see_you == <<"s","e","e"," ","y","o","u">>
T_good_night == <<"g","o","o","d"," ","n","i","g","h","t">>
T_help == <<"h","e","l","p">>
T_status == <<"s","t","a","t","u","s">>
T_history == <<"h","i","s","t","o","r","y">>
T_clear == <<"c","l","e","a","r">>
T_echo_ == <<"e","c","h","o"," ">>
T_reverse_ == <<"r","e","v","e","r","s","e"," ">>
T_count_ == <<"c","o","u","n","t"," ">>

(************************ webhook_text_message_example *********************)
\* dict lookups: a user without an entry is not in the DOMAIN
has_user(um, u) == u \in DOMAIN um

set_user(um, u, msgs) == (u :> msgs) @@ um

bullets(msgs) == [i \in 1..Len(msgs) |-> <<"* ">> \o msgs[i]]

\* faulty variant: user_messages[user_id][:5], the first five
history_reply_first5(um, user_id) ==
    IF has_user(um, user_id) /\ um[user_id] # <<>>
    THEN <<"Your recent messages:\n">>
         \o join_lines(bullets(SubSeq(um[user_id], 1,
                                      IF Len(um[user_id]) < 5 THEN Len(um[user_id]) ELSE 5)))
    ELSE <<"No message history found.">>

\* faulty variant: one list of messages for all users
history_reply_all_users(um, user_id) ==
    LET all == (IF has_user(um, "U1") THEN um["U1"] ELSE <<>>)
               \o (IF has_user(um, "U2") THEN um["U2"] ELSE <<>>) IN
    IF all # <<>>
    THEN <<"Your recent messages:\n">> \o join_lines(bullets(slice_last(all, 5)))
    ELSE <<"No message history found.">>

history_reply(um, user_id) ==
    IF has_user(um, user_id) /\ um[user_id] # <<>>
    THEN <<"Your recent messages:\n">>
         \o join_lines(bullets(slice_last(um[user_id], 5)))
    ELSE <<"No message history found.">>

\* faulty variant: user_messages.clear(), every user's history
clear_history_all(um, user_id) == [u \in DOMAIN um |-> <<>>]

\* the 'clear' branch: the history it leaves
clear_history(um, user_id) ==
    IF has_user(um, user_id) THEN set_user(um, user_id, <<>>) ELSE um

\* process_user_message: the reply text and the history it leaves
process_user_message(user_text, user_id, um) ==
    LET text_lower == strip(lower(user_text)) IN
    IF text_lower \in {T_hello, T_hi, T_hey, T_good_morning, T_good_evening}
    THEN [text |-> <<"Hello! How can I help you today?">>, messages |-> um]
    ELSE IF text_lower \in {T_bye, T_goodbye, T_see_you, T_good_night}
    THEN [text |-> <<"Goodbye! Have a great day!">>, messages |-> um]
    ELSE IF text_lower = T_help
    THEN [text |-> <<"Available commands: ...">>, messages |-> um]
    ELSE IF text_lower = T_status
    THEN [text |-> <<"Bot is running perfectly!">>, messages |-> um]
    ELSE IF text_lower = T_history
    THEN [text |-> history_reply(um, user_id), messages |-> um]
    ELSE IF text_lower = T_clear
    THEN [text |-> <<"Message history cleared!">>,
          messages |-> clear_history(um, user_id)]
    ELSE IF startswith(text_lower, T_echo_)
    THEN [text |-> <<"You said: ">> \o slice_from(user_text, 5), messages |-> um]
    ELSE IF startswith(text_lower, T_reverse_)
    THEN [text |-> <<"Reversed: ">> \o reversed(slice_from(user_text, 8)), messages |-> um]
    ELSE IF startswith(text_lower, T_count_)
    THEN [text |-> <<"Characters: ">> \o str_int(Len(slice_from(user_text, 6)))
                   \o <<", Words: ">> \o str_int(word_count(slice_from(user_text, 6))),
          messages |-> um]
    ELSE [text |-> <<"Thanks for your message: '">> \o user_text
                   \o <<"'\nTry typing 'help' to see available commands!">>,
          messages |-> um]

(* An event of the webhook payload.  replyToken "" stands for an absent or *)
(* empty token: `if event.replyToken` treats both alike.                   *)
NoToken == ""

reply_call(event, text) == [reply_token |-> event.replyToken, text |-> text]

\* faulty variant: the non-text reply outside the else branch
handle_text_message_no_else(event, um, api_ok) ==
    LET user_id == event.source.userId
        sorry == <<reply_call(event, <<"I can only handle text messages for now.">>)>>
    IN
    IF event.message.type = "text"
    THEN LET user_text == event.message.text
             stored == set_user(um, user_id,
                           Append(IF has_user(um, user_id) THEN um[user_id] ELSE <<>>,
                                  user_text))
             response == process_user_message(user_text, user_id, stored)
         IN  [messages |-> response.messages,
              calls |-> IF event.replyToken # NoToken
                        THEN <<reply_call(event, response.text)>> \o sorry ELSE <<>>,
              raised |-> event.replyToken # NoToken /\ ~api_ok]
    ELSE [messages |-> um,
          calls |-> IF event.replyToken # NoToken THEN sorry ELSE <<>>,
          raised |-> event.replyToken # NoToken /\ ~api_ok]

\* handle_text_message: the history it leaves, the reply_message calls it
\* makes, and whether it raised (reply_message failed: api_ok is FALSE)
handle_text_message(event, um, api_ok) ==
    LET user_id == event.source.userId IN
    IF event.message.type = "text"
    THEN LET user_text == event.message.text
             stored == set_user(um, user_id,
                           Append(IF has_user(um, user_id) THEN um[user_id] ELSE <<>>,
                                  user_text))
             response == process_user_message(user_text, user_id, stored)
         IN  [messages |-> response.messages,
              calls |-> IF event.replyToken # NoToken
                        THEN <<reply_call(event, response.text)>> ELSE <<>>,
              raised |-> event.replyToken # NoToken /\ ~api_ok]
    ELSE [messages |-> um,
          calls |-> IF event.replyToken # NoToken
                    THEN <<reply_call(event, <<"I can only handle text messages for now.">>)>>
                    ELSE <<>>,
          raised |-> event.replyToken # NoToken /\ ~api_ok]

(************************ simple_text_webhook_example **********************)
\* handle_message: it keeps no history
handle_message(event, um, api_ok) ==
    IF event.message.type = "text"
    THEN [messages |-> um,
          calls |-> IF event.replyToken # NoToken
                    THEN <<reply_call(event, <<"You said: ">> \o event.message.text)>>
                    ELSE <<>>,
          raised |-> event.replyToken # NoToken /\ ~api_ok]
    ELSE [messages |-> um, calls |-> <<>>, raised |-> FALSE]

(************************ LineWebhookHandler *******************************)
(* HMAC-SHA256 is idealised as collision-free: the digest of a body under  *)
(* a key is the pair of the two, so two digests agree exactly when key and *)
(* body agree.  The header carries the digest, or is absent or empty.      *)
ChannelSecret == "secret"

hmac_sha256(key, body) == [key |-> key, body |-> body]

\* faulty variant: the digest is checked for its key alone
verify_signature_key_only(request_body, signature, channel_secret) ==
    /\ signature.kind = "value"
    /\ signature.digest.key = channel_secret

verify_signature(request_body, signature, channel_secret) ==
    /\ signature.kind = "value"
    /\ signature.digest = hmac_sha256(channel_secret, request_body)

\* the handler registered with @webhook_handler.message_handler
message_handler(app, event, um, api_ok) ==
    IF app = "text" THEN handle_text_message(event, um, api_ok)
    ELSE handle_message(event, um, api_ok)

\* every message event goes to the registered handler, in payload order;
\* an exception of the handler ends the loop
RECURSIVE dispatch_events(_, _, _, _)
dispatch_events(app, events, um, api_ok) ==
    IF events = <<>>
    THEN [messages |-> um, calls |-> <<>>, dispatched |-> <<>>, raised |-> FALSE]
    ELSE IF Head(events).type # "message"
    THEN dispatch_events(app, Tail(events), um, api_ok)
    ELSE LET h == message_handler(app, Head(events), um, api_ok) IN
         IF h.raised
         THEN [messages |-> h.messages, calls |-> h.calls,
               dispatched |-> <<Head(events)>>, raised |-> TRUE]
         ELSE LET rest == dispatch_events(app, Tail(events), h.messages, api_ok) IN
              [messages |-> rest.messages, calls |-> h.calls \o rest.calls,
               dispatched |-> <<Head(events)>> \o rest.dispatched,
               raised |-> rest.raised]

\* handle_webhook: exc is "none" (returned), "http" (HTTPException with
\* `status`) or "other" (any other exception)
handle_webhook(app, request_body, signature, payload_dict, um, api_ok) ==
    IF ~verify_signature(request_body, signature, ChannelSecret)
    THEN [exc |-> "http", status |-> 400, detail |-> "Invalid signature",
          accepted |-> FALSE, messages |-> um, calls |-> <<>>, dispatched |-> <<>>]
    ELSE LET d == dispatch_events(app, payload_dict.events, um, api_ok) IN
         [exc |-> IF d.raised THEN "other" ELSE "none",
          status |-> 200, detail |-> "OK", accepted |-> TRUE,
          messages |-> d.messages, calls |-> d.calls, dispatched |-> d.dispatched]

(**************************** the endpoints ********************************)
(* A body is what its JSON text says (json: whether it parses; events) and  *)
(* how its bytes spell it (raw).  request.json() keeps only the former.    *)
json_ok(body) == body.json

json_parse(body) == [events |-> body.events]

not_called(um) ==
    [accepted |-> FALSE, messages |-> um, calls |-> <<>>, dispatched |-> <<>>]

\* faulty variant: the JSON is parsed before the signature header is looked at
text_endpoint_try_parse_first(request, um, api_ok) ==
    IF ~json_ok(request.body)
    THEN [exc |-> "http", status |-> 400, detail |-> "Invalid JSON payload",
          parsed |-> TRUE, called |-> FALSE] @@ not_called(um)
    ELSE IF request.signature.kind # "value"
    THEN [exc |-> "http", status |-> 400, detail |-> "Missing signature header",
          parsed |-> TRUE, called |-> FALSE] @@ not_called(um)
    ELSE [parsed |-> TRUE, called |-> TRUE]
         @@ handle_webhook("text", request.body, request.signature,
                           json_parse(request.body), um, api_ok)

\* the try block of webhook_text_message_example.webhook_endpoint; parsed
\* tells whether request.json() was awaited, called whether handle_webhook was
text_endpoint_try(request, um, api_ok) ==
    IF request.signature.kind # "value"
    THEN [exc |-> "http", status |-> 400, detail |-> "Missing signature header",
          parsed |-> FALSE, called |-> FALSE] @@ not_called(um)
    ELSE IF ~json_ok(request.body)
    THEN [exc |-> "http", status |-> 400, detail |-> "Invalid JSON payload",
          parsed |-> TRUE, called |-> FALSE] @@ not_called(um)
    ELSE [parsed |-> TRUE, called |-> TRUE]
         @@ handle_webhook("text", request.body, request.signature,
                           json_parse(request.body), um, api_ok)

\* webhook_text_message_example.webhook_endpoint with its except clauses
text_webhook_endpoint(request, um, api_ok) ==
    LET r == text_endpoint_try(request, um, api_ok) IN
    IF r.exc = "other"
    THEN [r EXCEPT !.status = 500, !.detail = "Internal server error"]
    ELSE r

\* simple_text_webhook_example.webhook_endpoint: FastAPI answers an
\* HTTPException with its status and any other exception with 500
simple_webhook_endpoint(request, um, api_ok) ==
    IF ~json_ok(request.body)
    THEN [exc |-> "other", status |-> 500, detail |-> "Internal Server Error",
          parsed |-> TRUE, called |-> FALSE] @@ not_called(um)
    ELSE LET r == [parsed |-> TRUE, called |-> TRUE]
                  @@ handle_webhook("simple", request.body, request.signature,
                                    json_parse(request.body), um, api_ok) IN
         IF r.exc = "other"
         THEN [r EXCEPT !.status = 500, !.detail = "Internal Server Error"]
         ELSE r

(****************************** inputs *************************************)
Users == {"U1", "U2"}

Tokens == {NoToken, "tok"}

T_a == <<"a">>
T_History == <<" ","H","i","s","t","o","r","y">>
T_Clear == <<"C","L","E","A","R"," ">>

SpecTexts == {T_history, T_clear, T_a}

HistTexts == {T_History, T_Clear, T_a}

text_event(u, t, k) ==
    [type |-> "message", source |-> [userId |-> u],
     message |-> [type |-> "text", text |-> t], replyToken |-> k]

image_event(u, k) ==
    [type |-> "message", source |-> [userId |-> u],
     message |-> [type |-> "image", text |-> <<>>], replyToken |-> k]

follow_event(u, k) ==
    [type |-> "follow", source |-> [userId |-> u],
     message |-> [type |-> "none", text |-> <<>>], replyToken |-> k]

Events(texts, tokens) ==
    {text_event(u, t, k) : u \in Users, t \in texts, k \in tokens}
    \cup {image_event(u, k) : u \in Users, k \in tokens}

GarbageBody == [json |-> FALSE, events |-> <<>>, raw |-> "compact"]

EmptyBody == [json |-> TRUE, events |-> <<>>, raw |-> "compact"]

BatchBody ==
    [json |-> TRUE,
     events |-> <<follow_event("U2", "tok0"), text_event("U1", T_history, "tok1"),
                  image_event("U2", "tok2")>>,
     raw |-> "spaced"]

EventBody(e) == [json |-> TRUE, events |-> <<e>>, raw |-> "compact"]

Bodies(texts, tokens) ==
    {GarbageBody, EmptyBody, [EmptyBody EXCEPT !.raw = "spaced"], BatchBody,
     EventBody(follow_event("U1", "tok"))}
    \cup {EventBody(e) : e \in Events(texts, tokens)}

\* some body other than b, for a signature made before the body was altered
OtherBody(b) == IF b = EmptyBody THEN GarbageBody ELSE EmptyBody

NoDigest == hmac_sha256("", EmptyBody)

AbsentHeader == [kind |-> "absent", digest |-> NoDigest]

EmptyHeader == [kind |-> "empty", digest |-> NoDigest]

SignedHeader(key, body) == [kind |-> "value", digest |-> hmac_sha256(key, body)]

Headers(b) ==
    {AbsentHeader, EmptyHeader}
    \cup {SignedHeader(k, m) : k \in {ChannelSecret, "guess"}, m \in {b, OtherBody(b)}}

Requests == UNION {{[body |-> b, signature |-> h] : h \in Headers(b)} : b \in Bodies(SpecTexts, Tokens)}

HistRequests ==
    {[body |-> EventBody(e), signature |-> SignedHeader(ChannelSecret, EventBody(e))] :
        e \in Events(HistTexts, {"tok"})}

(******************************* state *************************************)
EmptyMessages == [u \in {} |-> <<>>]

\* the messages of each user since that user's last 'clear', kept beside
\* the program's own user_messages
RECURSIVE expected_after(_, _)
expected_after(exp, events) ==
    IF events = <<>> THEN exp
    ELSE LET e == Head(events) IN
         expected_after(
             IF e.message.type # "text" THEN exp
             ELSE IF strip(lower(e.message.text)) = T_clear
                  THEN [exp EXCEPT ![e.source.userId] = <<>>]
                  ELSE [exp EXCEPT ![e.source.userId] = Append(@, e.message.text)],
             Tail(events))

Idle ==
    [app |-> "none", request |-> [body |-> EmptyBody, signature |-> AbsentHeader],
     api_ok |-> TRUE, exc |-> "none", status |-> 0, detail |-> "", parsed |-> FALSE,
     called |-> FALSE, accepted |-> FALSE, calls |-> <<>>, dispatched |-> <<>>]

completed(app, request, api_ok, r) ==
    [app |-> app, request |-> request, api_ok |-> api_ok, exc |-> r.exc,
     status |-> r.status, detail |-> r.detail, parsed |-> r.parsed, called |-> r.called,
     accepted |-> r.accepted, calls |-> r.calls, dispatched |-> r.dispatched]

Init ==
    /\ user_messages = EmptyMessages
    /\ expected = [u \in Users |-> <<>>]
    /\ last = Idle
    /\ handled = 0
    /\ pure_text = <<>>
    /\ pure_reply = <<>>

\* one POST /webhook to webhook_text_message_example
TextWebhook(request, api_ok) ==
    LET r == text_webhook_endpoint(request, user_messages, api_ok) IN
    /\ user_messages' = r.messages
    /\ expected' = expected_after(expected, r.dispatched)
    /\ last' = completed("text", request, api_ok, r)
    /\ handled' = handled + 1
    /\ UNCHANGED <<pure_text, pure_reply>>

\* one POST /webhook to simple_text_webhook_example, a server of its own
SimpleWebhook(request, api_ok) ==
    LET r == simple_webhook_endpoint(request, EmptyMessages, api_ok) IN
    /\ last' = completed("simple", request, api_ok, r)
    /\ handled' = handled + 1
    /\ UNCHANGED <<user_messages, expected, pure_text, pure_reply>>

Next ==
    /\ handled < MaxRequests
    /\ \E request \in Requests, api_ok \in BOOLEAN :
          \/ TextWebhook(request, api_ok)
          \/ SimpleWebhook(request, api_ok)

Spec == Init /\ [][Next]_vars

\* the text server under a long run of well-signed single-event requests
NextHist ==
    /\ handled < MaxHistEvents
    /\ \E request \in HistRequests : TextWebhook(request, TRUE)

SpecHist == Init /\ [][NextHist]_vars

(********************* process_user_message on its own *********************)
Spaces(n) == [i \in 1..n |-> " "]

CommandWords ==
    {T_echo_, <<"E","c","h","o"," ">>, T_reverse_, <<"R","E","V","E","R","S","E"," ">>,
     T_count_, <<"C","o","u","n","t"," ">>}

Payloads == UNION {[1..n -> {"a", "B", " "}] : n \in 0..MaxPayload}

PureTexts ==
    {Spaces(l) \o w \o p \o Spaces(t) :
        l \in 0..MaxLead, w \in CommandWords, p \in Payloads, t \in 0..1}
    \cup {Spaces(l) \o w : l \in 0..MaxLead,
            w \in {T_hello, T_bye, T_help, T_status, T_history, T_clear, T_a}}

NotCalled == <<"not called">>

InitPure ==
    /\ user_messages = EmptyMessages
    /\ expected = [u \in Users |-> <<>>]
    /\ last = Idle
    /\ handled = 0
    /\ pure_text \in PureTexts
    /\ pure_reply = NotCalled

ProcessUserMessage ==
    /\ pure_reply = NotCalled
    /\ pure_reply' = process_user_message(pure_text, "U1", user_messages).text
    /\ user_messages' = process_user_message(pure_text, "U1", user_messages).messages
    /\ UNCHANGED <<expected, last, handled, pure_text>>

NextPure == ProcessUserMessage

SpecPure == InitPure /\ [][NextPure]_vars

(******************************* claims ************************************)
ValidlySigned(request) ==
    request.signature = SignedHeader(ChannelSecret, request.body)

Command(event) == strip(lower(event.message.text))

IsTextEvent(event) == event.type = "message" /\ event.message.type = "text"

\* C1: handle_webhook accepts a request exactly when its X-Line-Signature is
\* the HMAC-SHA256 of the raw body under the channel secret, and no message
\* handler runs (no event is dispatched, no reply is sent) for a request
\* whose signature is not that.
C1_SignatureVerification ==
    /\ last.called => (last.accepted <=> ValidlySigned(last.request))
    /\ (last.app # "none" /\ ~ValidlySigned(last.request))
          => (~last.accepted /\ last.dispatched = <<>> /\ last.calls = <<>>)

\* C1 witness: handle_webhook rejected a signature made with the channel
\* secret over another body than the one received
C1_Witness ==
    /\ last.called /\ ~last.accepted
    /\ last.request.signature.kind = "value"
    /\ last.request.signature.digest.key = ChannelSecret
    /\ last.request.signature.digest.body # last.request.body
    /\ last.request.body.events # <<>>

\* C2: a request with a bad signature or a body that is not JSON gets 400,
\* any other failure gets 500, and 200 is returned only when handle_webhook
\* returned.
C2_ErrorStatus ==
    last.app # "none" =>
        /\ (~ValidlySigned(last.request) \/ ~json_ok(last.request.body)) => last.status = 400
        /\ (ValidlySigned(last.request) /\ json_ok(last.request.body) /\ last.exc # "none")
              => last.status = 500
        /\ last.status = 200 => (last.called /\ last.exc = "none")

\* the replies of a request handled by a server that has stored nothing
FreshCalls(request, api_ok) ==
    text_webhook_endpoint(request, EmptyMessages, api_ok).calls

Senders(request) ==
    {request.body.events[i].source.userId : i \in 1..Len(request.body.events)}

\* the stored histories of the senders of a request alone
OnlySenders(um, request) ==
    [u \in (DOMAIN um) \cap Senders(request) |-> um[u]]

AsksHistory(request) ==
    \E i \in 1..Len(request.body.events) :
        IsTextEvent(request.body.events[i]) /\ Command(request.body.events[i]) = T_history

\* C3 as stated: the replies to a request do not depend on the requests
\* handled before it, so they are those of a server that handled none.
C3_NoSharedState ==
    last.app = "text" => last.calls = FreshCalls(last.request, last.api_ok)

\* C3 as amended: the replies to a request depend on the request and on the
\* histories its senders have stored, not on any other user's; and unless
\* the request asks for 'history' they depend on the request alone.
C3_ReplyDependsOnSenderHistory ==
    [][last'.app = "text" =>
          /\ last'.calls = text_webhook_endpoint(last'.request,
                               OnlySenders(user_messages, last'.request), last'.api_ok).calls
          /\ ~AsksHistory(last'.request)
                => last'.calls = FreshCalls(last'.request, last'.api_ok)]_vars

\* C3 witness: a 'history' request was answered while both the sender and
\* another user had messages stored
C3_Witness ==
    /\ last.app = "text" /\ last.calls # <<>>
    /\ Len(last.dispatched) = 1 /\ AsksHistory(last.request)
    /\ \A u \in Users : has_user(user_messages, u) /\ user_messages[u] # <<>>

CallsFor(event) ==
    {j \in 1..Len(last.calls) : last.calls[j].reply_token = event.replyToken}

\* C4: for every message event dispatched, reply_message is called at most
\* once with the event's replyToken, never with an absent or empty token and
\* never with a token of no dispatched event; the simple example does not
\* reply to a non-text message.
C4_ReplyTokenOnce ==
    last.app # "none" =>
        /\ \A i \in 1..Len(last.dispatched) :
              /\ Cardinality(CallsFor(last.dispatched[i])) <= 1
              /\ last.dispatched[i].replyToken = NoToken => CallsFor(last.dispatched[i]) = {}
              /\ (last.app = "simple" /\ last.dispatched[i].message.type # "text")
                    => CallsFor(last.dispatched[i]) = {}
        /\ \A j \in 1..Len(last.calls) :
              /\ last.calls[j].reply_token # NoToken
              /\ \E i \in 1..Len(last.dispatched) :
                    last.dispatched[i].replyToken = last.calls[j].reply_token

\* C4 witness: the text server answered a text and a non-text event of one
\* request, each once
C4_Witness ==
    /\ last.app = "text" /\ Len(last.dispatched) = 2 /\ Len(last.calls) = 2
    /\ last.dispatched[1].message.type = "text"
    /\ last.dispatched[2].message.type # "text"

MissingSignature(l) == l.app = "text" /\ l.request.signature.kind # "value"

\* C5: the text server answers a request without a signature (header absent
\* or empty) with 400 'Missing signature header', without parsing the JSON,
\* calling handle_webhook, running a handler or changing any history.
C5_MissingSignatureFirst ==
    /\ [](MissingSignature(last) =>
            /\ last.status = 400 /\ last.detail = "Missing signature header"
            /\ ~last.parsed /\ ~last.called /\ ~last.accepted
            /\ last.dispatched = <<>> /\ last.calls = <<>>)
    /\ [][MissingSignature(last') => user_messages' = user_messages]_vars

\* C5 witness: a request with no signature and a body that is not JSON,
\* received when a history was stored
C5_Witness ==
    /\ MissingSignature(last) /\ ~json_ok(last.request.body)
    /\ user_messages # EmptyMessages

\* the last (at most) n of msgs, oldest first
MostRecent(msgs, n) ==
    LET k == IF Len(msgs) < n THEN Len(msgs) ELSE n IN
    [i \in 1..k |-> msgs[Len(msgs) - k + i]]

Listing(msgs) ==
    <<"Your recent messages:\n">> \o join_lines([i \in 1..Len(msgs) |-> <<"* ">> \o msgs[i]])

HistoryAnswered ==
    /\ last.app = "text" /\ Len(last.dispatched) = 1 /\ last.calls # <<>>
    /\ IsTextEvent(last.dispatched[1])
    /\ Command(last.dispatched[1]) = T_history

\* C6: the reply to 'history' (any case, surrounding whitespace ignored)
\* lists the sender's own messages since their last 'clear', the most recent
\* five at most, oldest first, ending with the 'history' message itself; it
\* is never 'No message history found.'.
C6_HistoryListsOwnRecent ==
    HistoryAnswered =>
        LET e == last.dispatched[1]
            listed == MostRecent(expected[e.source.userId], 5)
        IN  /\ last.calls[1].text = Listing(listed)
            /\ listed # <<>> /\ listed[Len(listed)] = e.message.text
            /\ last.calls[1].text # <<"No message history found.">>

\* C6 witness: 'history' answered for a user with more than five messages
\* stored, the other user having some too
C6_Witness ==
    /\ HistoryAnswered
    /\ Len(expected[last.dispatched[1].source.userId]) > 5
    /\ \A u \in Users : expected[u] # <<>>

Stored(u) == IF has_user(user_messages, u) THEN user_messages[u] ELSE <<>>

\* C7: every user's stored history is that user's text messages since their
\* own last 'clear', in arrival order: empty right after the 'clear', the k
\* messages sent since after k more, whatever other users sent or cleared.
C7_ClearOnlySender ==
    /\ \A u \in Users : Stored(u) = expected[u]
    /\ (/\ last.app = "text" /\ Len(last.dispatched) = 1
        /\ IsTextEvent(last.dispatched[1]) /\ Command(last.dispatched[1]) = T_clear)
          => Stored(last.dispatched[1].source.userId) = <<>>

\* C7 witness: a 'clear' was just handled, its sender's history is empty
\* and the other user's is not
C7_Witness ==
    /\ last.app = "text" /\ Len(last.dispatched) = 1
    /\ IsTextEvent(last.dispatched[1]) /\ Command(last.dispatched[1]) = T_clear
    /\ has_user(user_messages, last.dispatched[1].source.userId)
    /\ \E v \in Users : Len(Stored(v)) > 1

\* the part of the text after the command word (of k characters with its
\* space), the command word being where the text proper starts
AfterCommand(text, k) == slice_from(lstrip(text), k)

\* C8: for a text whose trimmed, lower-cased form starts with 'echo ',
\* 'reverse ' or 'count ', the reply is built from the part of the text that
\* follows the command word and its space.
C8_CommandArgument ==
    pure_reply # NotCalled =>
        LET text_lower == strip(lower(pure_text)) IN
        /\ startswith(text_lower, T_echo_)
              => pure_reply = <<"You said: ">> \o AfterCommand(pure_text, 5)
        /\ startswith(text_lower, T_reverse_)
              => pure_reply = <<"Reversed: ">> \o reversed(AfterCommand(pure_text, 8))
        /\ startswith(text_lower, T_count_)
              => pure_reply = <<"Characters: ">> \o str_int(Len(AfterCommand(pure_text, 6)))
                              \o <<", Words: ">> \o str_int(word_count(AfterCommand(pure_text, 6)))

====
